---- MODULE Spec2Model ----
(***************************************************************************)
(* Model of scripts/plugin-research-agent.py: the tool functions, the      *)
(* safety hook and the logging hook that the script registers with the     *)
(* agent runtime, and the on-disk record store they share.                 *)
(*                                                                         *)
(* Strings are sequences of one-character strings, so that substring       *)
(* tests, path joins and path splits are computed as the code computes     *)
(* them.  A path on disk is the sequence of its components below "/".      *)
(***************************************************************************)
EXTENDS Integers, Sequences, FiniteSets, TLC

\* ------------------------------------------------------------- bounds
\* calls the agent loop issues in one run
MaxCalls == 2
\* last value of the wall clock
MaxClock == 2

\* ------------------------------------------------------------ strings
\* s.startswith(sub), where the code tests `sub in s`
StartsWith(s, sub) == Len(sub) <= Len(s) /\ SubSeq(s, 1, Len(sub)) = sub

\* Python's `sub in s` on strings
Contains(s, sub) ==
    \E i \in 0..(Len(s) - Len(sub)) : SubSeq(s, i + 1, i + Len(sub)) = sub

Dot == <<".">>
DotDot == <<".", ".">>
DotJson == <<".", "j", "s", "o", "n">>

RECURSIVE SplitSlash(_, _, _)
\* the pieces of s between "/" characters, empty pieces dropped
SplitSlash(s, i, cur) ==
    IF i > Len(s)
    THEN (IF cur = <<>> THEN <<>> ELSE <<cur>>)
    ELSE IF s[i] = "/"
         THEN (IF cur = <<>> THEN <<>> ELSE <<cur>>) \o SplitSlash(s, i + 1, <<>>)
         ELSE SplitSlash(s, i + 1, Append(cur, s[i]))

\* pathlib's parse of a path string: "." pieces and repeated slashes go, ".." stays
Parts(s) == SelectSeq(SplitSlash(s, 1, <<>>), LAMBDA c : c # Dot)

\* Path(s).is_absolute()
IsAbsolute(s) == Len(s) > 0 /\ s[1] = "/"

\* the root pathlib keeps for a path string: "//" for exactly two leading
\* slashes, "/" for any other absolute path, none for a relative one
Root(s) ==
    IF ~IsAbsolute(s) THEN <<>>
    ELSE IF Len(s) >= 2 /\ s[2] = "/" /\ (Len(s) = 2 \/ s[3] # "/") THEN <<"/", "/">>
    ELSE <<"/">>

\* base / s for a base under "/" (given by its components): a path is its
\* root and its components, and an absolute s replaces the base
PathJoin(base, s) ==
    IF IsAbsolute(s) THEN [root |-> Root(s), parts |-> Parts(s)]
    ELSE [root |-> <<"/">>, parts |-> base \o Parts(s)]

RECURSIVE JoinSlash(_)
\* "/".join(parts)
JoinSlash(parts) ==
    IF parts = <<>> THEN <<>>
    ELSE IF Len(parts) = 1 THEN parts[1]
    ELSE parts[1] \o <<"/">> \o JoinSlash(Tail(parts))

\* str(path) of an absolute path
Str(path) == path.root \o JoinSlash(path.parts)

\* path.parent
Parent(parts) == IF parts = <<>> THEN <<>> ELSE SubSeq(parts, 1, Len(parts) - 1)

IsPrefix(p, q) == Len(p) <= Len(q) /\ SubSeq(q, 1, Len(p)) = p

\* ------------------------------------------------------ configuration
PROJECT_ROOT == << <<"p">> >>
DATA_DIR == PROJECT_ROOT \o << <<"d", "a", "t", "a">> >>
COMPARISONS_DIR ==
    DATA_DIR \o << <<"c", "o", "m", "p", "a", "r", "i", "s", "o", "n", "s">> >>
ENRICHMENT_DIR ==
    DATA_DIR \o << <<"e", "n", "r", "i", "c", "h", "m", "e", "n", "t">> >>

\* Path(__file__) and its parent: the script lies in PROJECT_ROOT/scripts
SCRIPTS_DIR == PROJECT_ROOT \o << <<"s", "c", "r", "i", "p", "t", "s">> >>
SCRIPT_FILE ==
    SCRIPTS_DIR \o << <<"p", "l", "u", "g", "i", "n", "-", "r", "e", "s", "e", "a", "r",
                        "c", "h", "-", "a", "g", "e", "n", "t", ".", "p", "y">> >>

\* --------------------------------------------------------- filesystem
\* The kernel's walk of an absolute path: every component that is walked
\* through must be a directory, ".." steps to the parent.
RECURSIVE Resolve(_, _, _)
Resolve(cur, rest, D) ==
    IF rest = <<>> THEN [ok |-> TRUE, path |-> cur]
    ELSE IF cur \notin D THEN [ok |-> FALSE, path |-> cur]
    ELSE IF Head(rest) = DotDot
         THEN Resolve(Parent(cur), Tail(rest), D)
         ELSE Resolve(Append(cur, Head(rest)), Tail(rest), D)

\* path.exists()
Exists(F, D, fp) ==
    LET r == Resolve(<<>>, fp, D) IN r.ok /\ (r.path \in DOMAIN F \/ r.path \in D)

\* path.is_dir()
IsDir(D, fp) == LET r == Resolve(<<>>, fp, D) IN r.ok /\ r.path \in D

\* os.mkdir(fp): the error it raises ("" for none) and the directories afterwards
OsMkdir(F, D, fp) ==
    LET r == Resolve(<<>>, fp, D)
    IN  IF ~r.ok
        THEN [err |-> IF r.path \in DOMAIN F THEN "NotADirectoryError"
                      ELSE "FileNotFoundError",
              dirs |-> D]
        ELSE IF r.path \in D \/ r.path \in DOMAIN F
        THEN [err |-> "FileExistsError", dirs |-> D]
        ELSE [err |-> "", dirs |-> D \cup {r.path}]

RECURSIVE Mkdir(_, _, _, _)
\* path.mkdir(parents=parents, exist_ok=True): whether it returned, the error
\* it raised otherwise, and the directories afterwards (those it had made
\* before it raised stay)
Mkdir(F, D, fp, parents) ==
    LET o == OsMkdir(F, D, fp)
    IN  IF o.err = "" THEN [ok |-> TRUE, err |-> "", dirs |-> o.dirs]
        ELSE IF o.err = "FileNotFoundError"
        THEN IF ~parents \/ fp = <<>>
             THEN [ok |-> FALSE, err |-> o.err, dirs |-> D]
             ELSE LET up == Mkdir(F, D, Parent(fp), TRUE)
                  IN  IF ~up.ok THEN up ELSE Mkdir(F, up.dirs, fp, FALSE)
        ELSE IF IsDir(D, fp) THEN [ok |-> TRUE, err |-> "", dirs |-> D]
        ELSE [ok |-> FALSE, err |-> o.err, dirs |-> D]

\* the import of the script over the files F and directories D: the three
\* mkdir(exist_ok=True) calls in order; the first that raises ends the import
Import(F, D) ==
    LET a == Mkdir(F, D, DATA_DIR, FALSE)
        b == Mkdir(F, a.dirs, COMPARISONS_DIR, FALSE)
        c == Mkdir(F, b.dirs, ENRICHMENT_DIR, FALSE)
    IN  IF ~a.ok THEN a ELSE IF ~b.ok THEN b ELSE c

\* ---------------------------------------------------------- documents
\* A file's text is kept by what json.loads makes of it: a JSON object
\* (with its members), some other JSON value, JSON nested deeper than the
\* interpreter's recursion limit lets json.loads go, or text that is not
\* JSON (the text "not json {", the empty text, the source of the script).
JsonDumps(obj) == [kind |-> "object", obj |-> obj]
Garbage == [kind |-> "garbage", obj |-> <<>>]
ArrayText == [kind |-> "array", obj |-> <<>>]
EmptyText == [kind |-> "empty", obj |-> <<>>]
PythonText == [kind |-> "python", obj |-> <<>>]
DeepText == [kind |-> "deep", obj |-> <<>>]
\* json.loads(text): the value, or the exception it raises
JsonLoads(text) ==
    IF text.kind \in {"object", "array"}
    THEN [ok |-> TRUE, err |-> "", kind |-> text.kind, obj |-> text.obj]
    ELSE [ok |-> FALSE,
          err |-> IF text.kind = "deep" THEN "RecursionError" ELSE "JSONDecodeError",
          kind |-> text.kind, obj |-> <<>>]

\* a checkout of the repository: the script in its directory
CheckoutFiles == SCRIPT_FILE :> PythonText
CheckoutDirs == {<<>>, PROJECT_ROOT, SCRIPTS_DIR}

\* the directories on disk once the script is imported on a checkout;
\* importing it again over the records of an earlier run adds none
InitDirs == Import(CheckoutFiles, CheckoutDirs).dirs

\* path.read_text(): the text, or the error raised
ReadText(F, D, fp) ==
    LET r == Resolve(<<>>, fp, D)
    IN  IF r.ok /\ r.path \in DOMAIN F
        THEN [ok |-> TRUE, text |-> F[r.path], err |-> "", at |-> r.path]
        ELSE [ok |-> FALSE, text |-> Garbage, at |-> r.path,
              err |-> IF r.ok /\ r.path \in D THEN "IsADirectoryError"
                      ELSE IF r.path \in DOMAIN F THEN "NotADirectoryError"
                      ELSE "FileNotFoundError"]

\* path.write_text(text): the files afterwards, or the error raised
WriteText(F, D, fp, text) ==
    LET r == Resolve(<<>>, fp, D)
    IN  IF r.ok /\ r.path \notin D
        THEN [ok |-> TRUE, files |-> (r.path :> text) @@ F, err |-> "", at |-> r.path]
        ELSE [ok |-> FALSE, files |-> F, at |-> r.path,
              err |-> IF r.ok THEN "IsADirectoryError"
                      ELSE IF r.path \in DOMAIN F THEN "NotADirectoryError"
                      ELSE "FileNotFoundError"]

\* ------------------------------------------------------ tool functions
\* Every tool operator yields the dict the function returns (res), the
\* files and directories afterwards, and the accesses it made to the
\* filesystem in order (ops), each with the place on disk it reached.

\* read_file(path)
ReadFile(F, D, path) ==
    LET fp == PathJoin(PROJECT_ROOT, path)
        r  == Resolve(<<>>, fp.parts, D)
        rd == ReadText(F, D, fp.parts)
    IN  IF ~Exists(F, D, fp.parts)
        THEN [res |-> [success |-> FALSE, error |-> "File not found"],
              files |-> F, dirs |-> D,
              ops |-> << [op |-> "exists", at |-> r.path] >>]
        ELSE IF ~rd.ok
        THEN [res |-> [success |-> FALSE, error |-> rd.err, path |-> path],
              files |-> F, dirs |-> D,
              ops |-> << [op |-> "exists", at |-> r.path], [op |-> "read", at |-> r.path] >>]
        ELSE [res |-> [success |-> TRUE, path |-> Str(fp), content |-> rd.text],
              files |-> F, dirs |-> D,
              ops |-> << [op |-> "exists", at |-> r.path], [op |-> "read", at |-> r.path] >>]

\* write_file(path, content); the size member of the result is not kept
WriteFile(F, D, path, content) ==
    LET fp == PathJoin(PROJECT_ROOT, path)
        mk == Mkdir(F, D, Parent(fp.parts), TRUE)
        pr == Resolve(<<>>, Parent(fp.parts), mk.dirs)
        wr == WriteText(F, mk.dirs, fp.parts, content)
    IN  IF ~mk.ok
        THEN [res |-> [success |-> FALSE, error |-> mk.err, path |-> path],
              files |-> F, dirs |-> mk.dirs,
              ops |-> << [op |-> "mkdir", at |-> pr.path] >>]
        ELSE IF ~wr.ok
        THEN [res |-> [success |-> FALSE, error |-> wr.err, path |-> path],
              files |-> F, dirs |-> mk.dirs,
              ops |-> << [op |-> "mkdir", at |-> pr.path], [op |-> "write", at |-> wr.at] >>]
        ELSE [res |-> [success |-> TRUE, path |-> Str(fp)],
              files |-> wr.files, dirs |-> mk.dirs,
              ops |-> << [op |-> "mkdir", at |-> pr.path], [op |-> "write", at |-> wr.at] >>]

\* {**data, **existing, "updated_at": ...}: the stored members win
MergeExistingWins(existing, data, t) ==
    [k \in DOMAIN existing \cup DOMAIN data \cup {"updated_at"} |->
        IF k = "updated_at" THEN t
        ELSE IF k \in DOMAIN existing THEN existing[k] ELSE data[k]]

\* {**existing, **data, "updated_at": datetime.now().isoformat()}
Merge(existing, data, t) ==
    [k \in DOMAIN existing \cup DOMAIN data \cup {"updated_at"} |->
        IF k = "updated_at" THEN t
        ELSE IF k \in DOMAIN data THEN data[k] ELSE existing[k]]

\* save_enrichment without the load of the existing record
SaveEnrichmentOverwriting(F, D, plugin_slug, data, t) ==
    LET fp == PathJoin(ENRICHMENT_DIR, plugin_slug \o DotJson)
        wr == WriteText(F, D, fp.parts, JsonDumps(Merge(<<>>, data, t)))
    IN  IF ~wr.ok
        THEN [res |-> [success |-> FALSE, error |-> wr.err, plugin_slug |-> plugin_slug],
              files |-> F, dirs |-> D, ops |-> << [op |-> "write", at |-> wr.at] >>]
        ELSE [res |-> [success |-> TRUE, path |-> Str(fp), plugin_slug |-> plugin_slug],
              files |-> wr.files, dirs |-> D, ops |-> << [op |-> "write", at |-> wr.at] >>]

\* save_enrichment taking a record it cannot load as an empty one
SaveEnrichmentLenient(F, D, plugin_slug, data, t) ==
    LET fp == PathJoin(ENRICHMENT_DIR, plugin_slug \o DotJson)
        rd == ReadText(F, D, fp.parts)
        ld == JsonLoads(rd.text)
        existing == IF rd.ok /\ ld.ok /\ ld.kind = "object" THEN ld.obj ELSE <<>>
        wr == WriteText(F, D, fp.parts, JsonDumps(Merge(existing, data, t)))
    IN  IF ~wr.ok
        THEN [res |-> [success |-> FALSE, error |-> wr.err, plugin_slug |-> plugin_slug],
              files |-> F, dirs |-> D, ops |-> << [op |-> "write", at |-> wr.at] >>]
        ELSE [res |-> [success |-> TRUE, path |-> Str(fp), plugin_slug |-> plugin_slug],
              files |-> wr.files, dirs |-> D, ops |-> << [op |-> "write", at |-> wr.at] >>]

\* save_enrichment(plugin_slug, data), datetime.now() being t
SaveEnrichment(F, D, plugin_slug, data, t) ==
    LET fp == PathJoin(ENRICHMENT_DIR, plugin_slug \o DotJson)
        r  == Resolve(<<>>, fp.parts, D)
        ex == Exists(F, D, fp.parts)
        rd == ReadText(F, D, fp.parts)
        ld == JsonLoads(rd.text)
        existing == IF ex THEN ld.obj ELSE <<>>
        wr == WriteText(F, D, fp.parts, JsonDumps(Merge(existing, data, t)))
        probe == << [op |-> "exists", at |-> r.path] >>
        fail(e, o) == [res |-> [success |-> FALSE, error |-> e, plugin_slug |-> plugin_slug],
                       files |-> F, dirs |-> D, ops |-> o]
    IN  IF ex /\ ~rd.ok THEN fail(rd.err, probe \o << [op |-> "read", at |-> r.path] >>)
        ELSE IF ex /\ ~ld.ok
        THEN fail(ld.err, probe \o << [op |-> "read", at |-> r.path] >>)
        ELSE IF ex /\ ld.kind # "object"
        THEN fail("TypeError", probe \o << [op |-> "read", at |-> r.path] >>)
        ELSE IF ~wr.ok
        THEN fail(wr.err, probe \o (IF ex THEN << [op |-> "read", at |-> r.path] >> ELSE <<>>)
                                \o << [op |-> "write", at |-> wr.at] >>)
        ELSE [res |-> [success |-> TRUE, path |-> Str(fp), plugin_slug |-> plugin_slug],
              files |-> wr.files, dirs |-> D,
              ops |-> probe \o (IF ex THEN << [op |-> "read", at |-> r.path] >> ELSE <<>>)
                           \o << [op |-> "write", at |-> wr.at] >>]

\* comparison_data["generated_at"] = datetime.now().isoformat()
Stamp(comparison_data, t) ==
    [k \in DOMAIN comparison_data \cup {"generated_at"} |->
        IF k = "generated_at" THEN t ELSE comparison_data[k]]

\* save_comparison that merges into the stored record as save_enrichment does
SaveComparisonMerging(F, D, slug, comparison_data, t) ==
    LET fp == PathJoin(COMPARISONS_DIR, slug \o DotJson)
        rd == ReadText(F, D, fp.parts)
        existing == IF rd.ok /\ rd.text.kind = "object" THEN rd.text.obj ELSE <<>>
        stamped == Stamp(comparison_data @@ existing, t)
        wr == WriteText(F, D, fp.parts, JsonDumps(stamped))
    IN  IF ~wr.ok
        THEN [res |-> [success |-> FALSE, error |-> wr.err, slug |-> slug],
              comparison_data |-> stamped,
              files |-> F, dirs |-> D, ops |-> << [op |-> "write", at |-> wr.at] >>]
        ELSE [res |-> [success |-> TRUE, path |-> Str(fp), slug |-> slug],
              comparison_data |-> stamped,
              files |-> wr.files, dirs |-> D, ops |-> << [op |-> "write", at |-> wr.at] >>]

\* save_comparison(slug, comparison_data), datetime.now() being t.  The
\* stamp is assigned into the mapping the caller passed: comparison_data in
\* the value is that mapping after the call, also when the write failed.
SaveComparison(F, D, slug, comparison_data, t) ==
    LET fp == PathJoin(COMPARISONS_DIR, slug \o DotJson)
        stamped == Stamp(comparison_data, t)
        wr == WriteText(F, D, fp.parts, JsonDumps(stamped))
    IN  IF ~wr.ok
        THEN [res |-> [success |-> FALSE, error |-> wr.err, slug |-> slug],
              comparison_data |-> stamped,
              files |-> F, dirs |-> D, ops |-> << [op |-> "write", at |-> wr.at] >>]
        ELSE [res |-> [success |-> TRUE, path |-> Str(fp), slug |-> slug],
              comparison_data |-> stamped,
              files |-> wr.files, dirs |-> D, ops |-> << [op |-> "write", at |-> wr.at] >>]

\* ----------------------------------------------- subprocess outcomes
\* A process is given by whether it can be started (kind "exit"; "oserror"
\* when the program is not on PATH, "noexec" when it is there but may not
\* be executed), the time dur it runs if left alone, the code rc it exits
\* with and what it prints (out): nothing (empty); a JSON object of the
\* shape its reader expects (json); a JSON object whose web.results is not
\* iterable, as null or a number (other); JSON on which .get fails, as an
\* array (array); JSON nested too deep for json.loads (deep); white space
\* only (blank); other text that is not JSON (text); bytes that are not
\* UTF-8, on stdout or stderr (bytes).
Exits ==
    { [rc |-> 1, out |-> "empty"], [rc |-> 1, out |-> "bytes"] }
    \cup { [rc |-> 0, out |-> o] :
             o \in {"empty", "blank", "json", "other", "array", "deep", "text",
                    "bytes"} }

Min(a, b) == IF a < b THEN a ELSE b

\* a wait for the natural end of the command, whatever the timeout
WaitForExit(p, timeout) == p.dur

\* how long subprocess.run waits for the process p under a timeout
WaitTime(p, timeout) == Min(p.dur, timeout)

\* how subprocess.run(capture_output=True, text=True, timeout=timeout) ends
\* for the process p: it raises the error of the start, it raises
\* TimeoutExpired, it raises UnicodeDecodeError on the output, or it returns
WaitEnd(p, timeout) ==
    IF p.kind \in {"oserror", "noexec"} THEN p.kind
    ELSE IF p.dur > timeout THEN "timeout"
    ELSE IF p.out = "bytes" THEN "undecodable"
    ELSE "exit"

\* What one subprocess.run call can come to: how it ends, and the exit code
\* and the output of a process that ended by itself.
ProcOutcomes ==
    { [kind |-> k, rc |-> 1, out |-> "empty"] : k \in {"oserror", "noexec", "timeout"} }
    \cup { [kind |-> IF x.out = "bytes" THEN "undecodable" ELSE "exit",
            rc |-> x.rc, out |-> x.out] : x \in Exits }

\* the ends of the subprocess.run call that waits for the process p under a
\* timeout, each with the time dur the call took
RunEnds(p, timeout) ==
    { [kind |-> o.kind, rc |-> o.rc, out |-> o.out, dur |-> WaitTime(p, timeout)] :
        o \in { x \in ProcOutcomes :
                  x.kind = WaitEnd([p EXCEPT !.out = x.out], timeout) } }

Raised(o) == o.kind # "exit"
\* the exception subprocess.run raised
ExcName(o) ==
    CASE o.kind = "timeout" -> "TimeoutExpired"
      [] o.kind = "noexec" -> "PermissionError"
      [] o.kind = "undecodable" -> "UnicodeDecodeError"
      [] OTHER -> "FileNotFoundError"

\* json.loads(result.stdout) for the output out of a process: the exception
\* it raises, or "" when it returns a value
LoadsErr(out) ==
    CASE out = "deep" -> "RecursionError"
      [] out \in {"empty", "blank", "text"} -> "JSONDecodeError"
      [] OTHER -> ""

\* web_search(query, max_results): o1 is the openclaw run, key tells whether
\* BRAVE_API_KEY is set, o2 is the curl run.  The value holds the dict
\* returned, the subprocess.run calls made and the time they took.
WebSearch(query, o1, key, o2) ==
    LET err(e) == [success |-> FALSE, error |-> e, query |-> query]
        good == [success |-> TRUE, query |-> query]
    IN  IF Raised(o1) THEN [res |-> err(ExcName(o1)), spawns |-> 1, elapsed |-> o1.dur]
        ELSE IF o1.rc = 0
        THEN [res |-> IF o1.out # "empty" /\ LoadsErr(o1.out) # ""
                      THEN err(LoadsErr(o1.out)) ELSE good,
              spawns |-> 1, elapsed |-> o1.dur]
        ELSE IF ~key THEN [res |-> err("Search failed"), spawns |-> 1, elapsed |-> o1.dur]
        ELSE IF Raised(o2)
        THEN [res |-> err(ExcName(o2)), spawns |-> 2, elapsed |-> o1.dur + o2.dur]
        ELSE IF o2.rc = 0
        THEN [res |-> IF LoadsErr(o2.out) # "" THEN err(LoadsErr(o2.out))
                      ELSE IF o2.out = "array" THEN err("AttributeError")
                      ELSE IF o2.out = "other" THEN err("TypeError")
                      ELSE good,
              spawns |-> 2, elapsed |-> o1.dur + o2.dur]
        ELSE [res |-> err("Search failed"), spawns |-> 2, elapsed |-> o1.dur + o2.dur]

\* fetch_url(url, max_chars): o1 is the openclaw run, o2 the curl run
FetchUrl(url, o1, o2) ==
    LET err(e) == [success |-> FALSE, error |-> e, url |-> url]
        good == [success |-> TRUE, url |-> url]
    IN  IF Raised(o1) THEN [res |-> err(ExcName(o1)), spawns |-> 1, elapsed |-> o1.dur]
        ELSE IF o1.rc = 0 THEN [res |-> good, spawns |-> 1, elapsed |-> o1.dur]
        ELSE IF Raised(o2)
        THEN [res |-> err(ExcName(o2)), spawns |-> 2, elapsed |-> o1.dur + o2.dur]
        ELSE IF o2.rc = 0 THEN [res |-> good, spawns |-> 2, elapsed |-> o1.dur + o2.dur]
        ELSE [res |-> err("Fetch failed"), spawns |-> 2, elapsed |-> o1.dur + o2.dur]

\* the keys of query_map
QueryMap ==
    {"plugins:list", "plugins:get", "plugins:search", "manufacturers:list",
     "comparisons:list"}

\* query_convex handing the query name to the CLI without the look-up in query_map
QueryConvexUnchecked(query_name, o) ==
    LET err(e) == [success |-> FALSE, error |-> e, query |-> query_name]
    IN  IF Raised(o) THEN [res |-> err(ExcName(o)), spawns |-> 1, elapsed |-> o.dur]
        ELSE IF o.rc = 0
        THEN [res |-> IF o.out \notin {"empty", "blank"} /\ LoadsErr(o.out) # ""
                      THEN err(LoadsErr(o.out))
                      ELSE [success |-> TRUE, query |-> query_name],
              spawns |-> 1, elapsed |-> o.dur]
        ELSE [res |-> err("stderr"), spawns |-> 1, elapsed |-> o.dur]

\* query_convex(query_name, args): o is the npx run
QueryConvex(query_name, o) ==
    LET err(e) == [success |-> FALSE, error |-> e, query |-> query_name]
    IN  IF query_name \notin QueryMap
        THEN [res |-> [success |-> FALSE, error |-> "Unknown query"],
              spawns |-> 0, elapsed |-> 0]
        ELSE IF Raised(o) THEN [res |-> err(ExcName(o)), spawns |-> 1, elapsed |-> o.dur]
        ELSE IF o.rc = 0
        THEN [res |-> IF o.out \notin {"empty", "blank"} /\ LoadsErr(o.out) # ""
                      THEN err(LoadsErr(o.out))
                      ELSE [success |-> TRUE, query |-> query_name],
              spawns |-> 1, elapsed |-> o.dur]
        ELSE [res |-> err("stderr"), spawns |-> 1, elapsed |-> o.dur]

\* execute_bash(command, timeout) once its subprocess.run call has ended:
\* p is how it ended
ExecuteBashResult(p, timeout) ==
    IF p.kind = "timeout" THEN [success |-> FALSE, error |-> "Command timed out"]
    ELSE IF Raised(p) THEN [success |-> FALSE, error |-> ExcName(p)]
    ELSE [success |-> (p.rc = 0), stdout |-> "out", stderr |-> "err", exit_code |-> p.rc]

\* ---------------------------------------------------------------- hooks
\* SafetyHook.execute: the exception it raises, or "" when it returns context
DangerousWords ==
    { <<"r", "m", " ", "-", "r", "f">>, <<"m", "k", "f", "s">>,
      <<">", " ", "/", "d", "e", "v", "/">>, <<"s", "u", "d", "o">> }

\* context.tool_input.get(name, "")
InputGet(tool_input, name) ==
    IF name \in DOMAIN tool_input THEN tool_input[name] ELSE <<>>

\* a hook that checks commands and lets every path through
SafetyHookBashOnly(context) ==
    IF context.tool_name = "execute_bash"
       /\ \E d \in DangerousWords : Contains(InputGet(context.tool_input, "command"), d)
    THEN "PermissionError"
    ELSE ""

SafetyHookExecute(context) ==
    IF context.tool_name = "execute_bash"
       /\ \E d \in DangerousWords : Contains(InputGet(context.tool_input, "command"), d)
    THEN "PermissionError"
    ELSE IF context.tool_name \in {"read_file", "write_file"}
            /\ Contains(InputGet(context.tool_input, "path"), DotDot)
    THEN "ValueError"
    ELSE ""

\* a logging hook that cuts the output it logs in the context itself
LoggingHookCutting(calls, starts, context, t) ==
    IF "tool_output" \in DOMAIN context
    THEN [context |-> [context EXCEPT !.tool_output = [success |-> context.success]],
          tool_calls |-> Append(calls, [tool |-> context.tool_name,
                                        success |-> context.success,
                                        elapsed |-> IF context.tool_name \in DOMAIN starts
                                                    THEN t - starts[context.tool_name]
                                                    ELSE 0]),
          start_times |-> starts]
    ELSE [context |-> context, tool_calls |-> calls,
          start_times |-> (context.tool_name :> t) @@ starts]

\* PluginRadarLoggingHook.execute(context) at time t, the hook's fields
\* being tool_calls and start_times: the context it returns and its fields
\* afterwards
LoggingHookExecute(calls, starts, context, t) ==
    IF "tool_output" \in DOMAIN context
    THEN LET begun == IF context.tool_name \in DOMAIN starts
                      THEN starts[context.tool_name] ELSE t
         IN  [context |-> context,
              tool_calls |-> Append(calls, [tool |-> context.tool_name,
                                            success |-> context.success,
                                            elapsed |-> t - begun]),
              start_times |-> starts]
    ELSE [context |-> context,
          tool_calls |-> calls,
          start_times |-> (context.tool_name :> t) @@ starts]

\* PluginRadarLoggingHook.summary: the three numbers it prints
RECURSIVE SumElapsed(_)
SumElapsed(calls) ==
    IF calls = <<>> THEN 0 ELSE Head(calls).elapsed + SumElapsed(Tail(calls))
Summary(calls) ==
    [total |-> Len(calls),
     successful |-> Cardinality({i \in 1..Len(calls) : calls[i].success}),
     total_time |-> SumElapsed(calls)]

\* ---------------------------------------------------------------- state
VARIABLES
    files,        \* the text of every file on disk, by its place
    dirs,         \* the directories on disk
    now,          \* the wall clock
    pc,           \* where the agent loop is in the call it has issued
    ctx,          \* the context handed from hook to tool to hook
    outcome,      \* what the last call came to for the agent loop
    tool_calls,   \* PluginRadarLoggingHook.tool_calls
    start_times,  \* PluginRadarLoggingHook.start_times
    proc,         \* the process the subprocess.run call in progress waits for
    spawned,      \* subprocess.run calls made by the call in progress
    ops,          \* filesystem accesses made by the call in progress
    issued,       \* calls issued so far
    hist,         \* the last two calls that ended, oldest first
    at_entry      \* the files when the tool function of the call in progress was
                  \* entered (nothing between calls)

vars == <<files, dirs, now, pc, ctx, outcome, tool_calls, start_times, proc,
          spawned, ops, issued, hist, at_entry>>

\* ------------------------------------------------------------- inputs
Foo == <<"f", "o", "o">>
Bar == <<"b", "a", "r">>
\* "../enrichment/foo"
UpEnrichmentFoo ==
    <<".", ".", "/", "e", "n", "r", "i", "c", "h", "m", "e", "n", "t", "/", "f", "o", "o">>
\* "a/b"
SlugAB == <<"a", "/", "b">>
\* "n", "/x", "../x", "a..b", "data"
PathN == <<"n">>
PathAbs == <<"/", "x">>
PathUp == <<".", ".", "/", "x">>
PathDots == <<"a", ".", ".", "b">>
PathData == <<"d", "a", "t", "a">>
\* "data/enrichment/foo.json" and "data/enrichment/foo.json/x"
PathRecord ==
    <<"d", "a", "t", "a", "/", "e", "n", "r", "i", "c", "h", "m", "e", "n", "t", "/",
      "f", "o", "o", ".", "j", "s", "o", "n">>
PathUnderRecord == PathRecord \o <<"/", "x">>
\* "ls", "touch n", "rm -r n", "rm -rf /", "sudo ls", "mkfs", "ls > /dev/null"
CmdLs == <<"l", "s">>
CmdTouchN == <<"t", "o", "u", "c", "h", " ", "n">>
CmdRmR == <<"r", "m", " ", "-", "r", " ", "n">>
CmdRmRf == <<"r", "m", " ", "-", "r", "f", " ", "/">>
CmdSudo == <<"s", "u", "d", "o", " ", "l", "s">>
CmdMkfs == <<"m", "k", "f", "s">>
CmdDevNull == <<"l", "s", " ", ">", " ", "/", "d", "e", "v", "/", "n", "u", "l", "l">>
\* "printf '\\377'": prints the byte 0xff
CmdPrintf == <<"p", "r", "i", "n", "t", "f", " ", "'", "\\", "3", "7", "7", "'">>

\* what is under the directory n in the files F and directories D and has
\* nothing under it: the files, and the directories that are empty
Leaves(n, F, D) ==
    { x \in DOMAIN F : IsPrefix(n, x) }
    \cup { d \in D : /\ IsPrefix(n, d) /\ d # n
                     /\ \A y \in DOMAIN F \cup D : IsPrefix(d, y) => y = d }

\* One step of bash -c command with cwd=PROJECT_ROOT on the files F and
\* directories D, begun telling whether it has made a step before: the
\* disks the step can lead to, each with whether the command has ended
\* (done) and, if so, the ways it can end: an exit code rc with what it
\* has written to stdout (out; messages go to stderr).  "n" is
\* PROJECT_ROOT/n.  touch creates n if it is not there; rm -r removes what
\* is under n entry by entry, in the order the directory lists them, and n
\* last, and says so when there is no n; ls lists the project root; rm
\* refuses "/"; mkfs without a device ends with its usage; sudo ls lists
\* (0), is refused (1) or finds no sudo (127), as the machine has it.
\* bash runs a single command in its own process, so killing bash ends the
\* command.
BashStep(command, F, D, begun) ==
    LET n == Append(PROJECT_ROOT, PathN)
        end(F2, D2, ends) == [files |-> F2, dirs |-> D2, done |-> TRUE, ends |-> ends]
        as(rc, out) == [rc |-> rc, out |-> out]
        less(x) == [files |-> [q \in DOMAIN F \ {x} |-> F[q]], dirs |-> D \ {x},
                    done |-> FALSE, ends |-> {}]
    IN  CASE command = CmdTouchN ->
               IF n \in DOMAIN F \/ n \in D THEN { end(F, D, {as(0, "empty")}) }
               ELSE { end((n :> EmptyText) @@ F, D, {as(0, "empty")}) }
          [] command = CmdRmR ->
               IF n \in DOMAIN F
               THEN { end([q \in DOMAIN F \ {n} |-> F[q]], D, {as(0, "empty")}) }
               ELSE IF n \in D
               THEN IF Leaves(n, F, D) = {} THEN { end(F, D \ {n}, {as(0, "empty")}) }
                    ELSE { less(x) : x \in Leaves(n, F, D) }
               ELSE { end(F, D, {as(1, "empty")}) }
          [] command = CmdLs -> { end(F, D, {as(0, "text")}) }
          [] command = CmdDevNull -> { end(F, D, {as(0, "empty")}) }
          [] command = CmdPrintf -> { end(F, D, {as(0, "bytes")}) }
          [] command = CmdSudo ->
               { end(F, D, {as(0, "text"), as(1, "empty"), as(127, "empty")}) }
          [] command \in {CmdRmRf, CmdMkfs} -> { end(F, D, {as(1, "empty")}) }

\* bash -c command run to its end: the disk afterwards and the ways it can
\* end, each an exit code with what it has written to stdout
RECURSIVE BashRunFrom(_, _, _, _)
BashRunFrom(command, F, D, begun) ==
    LET s == CHOOSE x \in BashStep(command, F, D, begun) : TRUE
    IN  IF s.done THEN [files |-> s.files, dirs |-> s.dirs, ends |-> s.ends]
        ELSE BashRunFrom(command, s.files, s.dirs, TRUE)

BashRun(command, F, D) == BashRunFrom(command, F, D, FALSE)

\* the enrichment record of foo on disk
EnrichmentFoo == ENRICHMENT_DIR \o <<Foo \o DotJson>>
ComparisonFoo == COMPARISONS_DIR \o <<Foo \o DotJson>>

\* The store outlives a run of the script: next to the script the disk
\* holds no record, or what an earlier run saved for foo.
InitFiles ==
    { CheckoutFiles,
      (EnrichmentFoo :> JsonDumps([rating |-> 199, updated_at |-> 0])) @@ CheckoutFiles }

Call(tool, input) == [tool |-> tool, input |-> input]

EnrichmentData ==
    { [price |-> 199], [price |-> 149, currency |-> 840], [updated_at |-> 149] }
ComparisonData ==
    { [verdict |-> 199], [price |-> 149, generated_at |-> 149] }

StoreCalls ==
    { Call("save_enrichment", [plugin_slug |-> sl, data |-> d]) :
        sl \in {Foo, Bar}, d \in EnrichmentData }
    \cup { Call("save_comparison", [slug |-> sl, comparison_data |-> d]) :
             sl \in {Foo, UpEnrichmentFoo}, d \in ComparisonData }
    \cup { Call("write_file", [path |-> PathRecord, content |-> c]) :
             c \in {Garbage, ArrayText, DeepText} }
    \cup { Call("write_file", [path |-> PathUp, content |-> Garbage]),
           Call("read_file", [path |-> PathRecord]) }

GateCalls ==
    { Call("execute_bash", [command |-> c, timeout |-> 1]) :
        c \in {CmdLs, CmdTouchN, CmdRmR, CmdRmRf, CmdSudo, CmdMkfs, CmdDevNull} }
    \cup { Call("execute_bash", [command |-> CmdLs, timeout |-> 2]) }
    \cup { Call("read_file", [path |-> q]) : q \in {PathN, PathAbs, PathUp, PathDots} }
    \cup { Call("write_file", [path |-> q, content |-> Garbage]) :
             q \in {PathN, PathAbs, PathUp, PathDots} }

AllCalls ==
    { Call("web_search", [query |-> "q"]),
      Call("fetch_url", [url |-> "u"]),
      Call("query_convex", [query_name |-> "plugins:list"]),
      Call("read_file", [path |-> PathN]),
      Call("read_file", [path |-> PathUp]),
      Call("write_file", [path |-> PathRecord, content |-> Garbage]),
      Call("execute_bash", [command |-> CmdLs, timeout |-> 1]),
      Call("save_enrichment", [plugin_slug |-> Foo, data |-> [price |-> 199]]),
      Call("save_comparison", [slug |-> Foo, comparison_data |-> [verdict |-> 199]]) }

\* no subprocess.run call yet.  Of a process, rc and out are known once it
\* has ended; timeout is that of the subprocess.run call waiting for it,
\* prev holds how the earlier subprocess.run calls of the tool call ended
\* and work tells how far a bash command has come (todo, doing, done).
NoProc ==
    [state |-> "none", kind |-> "exit", started |-> 0, dur |-> 0, rc |-> 0,
     out |-> "empty", timeout |-> 0, prev |-> <<>>, work |-> "todo"]
NoCtx == [tool_name |-> "", tool_input |-> <<>>]
NoOutcome == [kind |-> "none", exc |-> "", result |-> <<>>]

\* the script has been imported over what the disk held
Init ==
    /\ files \in InitFiles
    /\ Import(files, InitDirs).ok
    /\ dirs = Import(files, InitDirs).dirs
    /\ now = 0
    /\ pc = "idle"
    /\ ctx = NoCtx
    /\ outcome = NoOutcome
    /\ tool_calls = <<>>
    /\ start_times = <<>>
    /\ proc = NoProc
    /\ spawned = 0
    /\ ops = <<>>
    /\ issued = 0
    /\ hist = <<>>
    /\ at_entry = <<>>

\* the last two entries of the calls that ended
Push(h, e) == IF Len(h) < 2 THEN Append(h, e) ELSE <<h[2], e>>

\* an ended call: its tool, its input as the call was issued, how it ended,
\* the time t at which the tool returned or the hook raised, and the files
\* before it
Ended(success, exc, t, before) ==
    [tool |-> ctx.tool_name, input |-> ctx.tool_input, success |-> success,
     exc |-> exc, t |-> t, before |-> before]

\* ------------------------------------------------------- the agent loop
\* The loop issues one call at a time (create_agent: hooks=[SafetyHook(),
\* logging_hook]): the pre-invocation hooks run in that order, then the
\* tool, then the post-invocation hook.  A hook that raises ends the call.
Issue(c) ==
    /\ pc = "idle"
    /\ issued < MaxCalls
    /\ now <= MaxClock
    /\ c.tool = "execute_bash" => now + c.input.timeout <= MaxClock
    /\ issued' = issued + 1
    /\ ctx' = [tool_name |-> c.tool, tool_input |-> c.input]
    /\ pc' = "safety"
    /\ outcome' = NoOutcome
    /\ spawned' = 0
    /\ ops' = <<>>
    /\ proc' = NoProc
    /\ UNCHANGED <<files, dirs, now, tool_calls, start_times, hist, at_entry>>

\* the clock moves between calls
Tick ==
    /\ pc = "idle"
    /\ now < MaxClock
    /\ now' = now + 1
    /\ UNCHANGED <<files, dirs, pc, ctx, outcome, tool_calls, start_times, proc,
                   spawned, ops, issued, hist, at_entry>>

SafetyPre ==
    /\ pc = "safety"
    /\ LET e == SafetyHookExecute(ctx)
       IN  IF e = ""
           THEN /\ pc' = "logging_pre"
                /\ UNCHANGED <<outcome, hist>>
           ELSE /\ pc' = "idle"
                /\ outcome' = [kind |-> "raise", exc |-> e, result |-> <<>>]
                /\ hist' = Push(hist, Ended(FALSE, e, now, files))
    /\ UNCHANGED <<files, dirs, now, ctx, tool_calls, start_times, proc, spawned,
                   ops, issued, at_entry>>

LoggingPre ==
    /\ pc = "logging_pre"
    /\ LET r == LoggingHookExecute(tool_calls, start_times, ctx, now)
       IN  /\ ctx' = r.context
           /\ tool_calls' = r.tool_calls
           /\ start_times' = r.start_times
    /\ pc' = "tool"
    /\ at_entry' = files
    /\ UNCHANGED <<files, dirs, now, outcome, proc, spawned, ops, issued, hist>>

LoggingPost ==
    /\ pc = "logging_post"
    /\ LET r == LoggingHookExecute(tool_calls, start_times, ctx, now)
       IN  /\ ctx' = r.context
           /\ tool_calls' = r.tool_calls
           /\ start_times' = r.start_times
           /\ outcome' = [kind |-> "return", exc |-> "", result |-> r.context.tool_output]
    /\ pc' = "idle"
    /\ at_entry' = <<>>
    /\ UNCHANGED <<files, dirs, now, proc, spawned, ops, issued, hist>>

\* the tool function has returned res at time t, its input being tool_input
\* by then: the post-invocation context
ReturnedAt(res, t, tool_input) ==
    /\ ctx' = [tool_name |-> ctx.tool_name, tool_input |-> tool_input,
               tool_output |-> res, success |-> res.success]
    /\ pc' = "logging_post"
    /\ hist' = Push(hist, Ended(res.success, "", t, at_entry))

\* the tool function has returned res, no time having passed since the
\* clock was last read and the input being as it was issued
Returned(res) == ReturnedAt(res, now, ctx.tool_input)

DoReadFile ==
    /\ pc = "tool" /\ ctx.tool_name = "read_file"
    /\ LET r == ReadFile(files, dirs, ctx.tool_input.path)
       IN  /\ Returned(r.res)
           /\ ops' = r.ops
           /\ files' = r.files
           /\ dirs' = r.dirs
    /\ UNCHANGED <<now, outcome, tool_calls, start_times, proc, spawned, issued,
                   at_entry>>

DoWriteFile ==
    /\ pc = "tool" /\ ctx.tool_name = "write_file"
    /\ LET r == WriteFile(files, dirs, ctx.tool_input.path, ctx.tool_input.content)
       IN  /\ Returned(r.res)
           /\ ops' = r.ops
           /\ files' = r.files
           /\ dirs' = r.dirs
    /\ UNCHANGED <<now, outcome, tool_calls, start_times, proc, spawned, issued,
                   at_entry>>

DoSaveEnrichment ==
    /\ pc = "tool" /\ ctx.tool_name = "save_enrichment"
    /\ LET data == ctx.tool_input.data
           r == SaveEnrichment(files, dirs, ctx.tool_input.plugin_slug, data, now)
       IN  /\ Returned(r.res)
           /\ ops' = r.ops
           /\ files' = r.files
           /\ dirs' = r.dirs
    /\ UNCHANGED <<now, outcome, tool_calls, start_times, proc, spawned, issued,
                   at_entry>>

DoSaveComparison ==
    /\ pc = "tool" /\ ctx.tool_name = "save_comparison"
    /\ LET r == SaveComparison(files, dirs, ctx.tool_input.slug,
                               ctx.tool_input.comparison_data, now)
       IN  /\ ReturnedAt(r.res, now,
                         [ctx.tool_input EXCEPT !.comparison_data = r.comparison_data])
           /\ ops' = r.ops
           /\ files' = r.files
           /\ dirs' = r.dirs
    /\ UNCHANGED <<now, outcome, tool_calls, start_times, proc, spawned, issued,
                   at_entry>>

\* A subprocess.run call under a timeout begins, prev being how the earlier
\* ones of the tool call ended: the process is started or cannot be.  One
\* that is started ends by itself while the clock is within MaxClock, or
\* outlives the timeout (dur = timeout + 1 stands for every longer run).
Spawn(timeout, prev) ==
    /\ spawned' = spawned + 1
    /\ \E k \in {"exit", "oserror", "noexec"},
          dur \in (0..Min(MaxClock - now, timeout)) \cup {timeout + 1} :
          proc' = [state |-> "running", kind |-> k, started |-> now,
                   dur |-> IF k = "exit" THEN dur ELSE 0,
                   rc |-> 0, out |-> "empty", timeout |-> timeout, prev |-> prev,
                   work |-> "todo"]

\* the last subprocess.run call of the tool call has ended as e: how it
\* ended and the exit code are kept, the output has gone into the result
Ended1(e) ==
    [proc EXCEPT !.state = "ended", !.kind = e.kind, !.rc = e.rc, !.out = "empty",
                 !.prev = <<>>, !.work = "todo"]

\* time passes while subprocess.run waits; beyond MaxClock the clock is
\* next looked at when the wait is over
ProcTick ==
    /\ pc = "tool" /\ proc.state = "running"
    /\ now - proc.started < WaitTime(proc, proc.timeout)
    /\ now' = IF now < MaxClock THEN now + 1
              ELSE proc.started + WaitTime(proc, proc.timeout)
    /\ UNCHANGED <<files, dirs, pc, ctx, outcome, tool_calls, start_times, proc,
                   spawned, ops, issued, hist, at_entry>>

\* the wait of the subprocess.run call in progress is over
WaitOver ==
    /\ pc = "tool" /\ proc.state = "running"
    /\ now - proc.started = WaitTime(proc, proc.timeout)

\* web_search calls subprocess.run for openclaw
WebSearchSpawn ==
    /\ pc = "tool" /\ proc.state = "none" /\ ctx.tool_name = "web_search"
    /\ Spawn(30, <<>>)
    /\ UNCHANGED <<files, dirs, now, pc, ctx, outcome, tool_calls, start_times, ops,
                   issued, hist, at_entry>>

\* a subprocess.run call of web_search ends: web_search returns, or (after
\* openclaw exited non-zero, with BRAVE_API_KEY set) calls it for curl
WebSearchEnd ==
    /\ WaitOver /\ ctx.tool_name = "web_search"
    /\ \E e \in RunEnds(proc, proc.timeout), key \in BOOLEAN :
          LET first == proc.prev = <<>>
              r == WebSearch(ctx.tool_input.query, IF first THEN e ELSE proc.prev[1],
                             first => key, e)
          IN  /\ ~first => key
              /\ IF first /\ r.spawns = 2
                 THEN /\ Spawn(30, <<e>>)
                      /\ UNCHANGED <<pc, ctx, hist>>
                 ELSE /\ Returned(r.res)
                      /\ proc' = Ended1(e)
                      /\ UNCHANGED spawned
    /\ UNCHANGED <<files, dirs, now, outcome, tool_calls, start_times, ops, issued,
                   at_entry>>

\* fetch_url calls subprocess.run for openclaw
FetchUrlSpawn ==
    /\ pc = "tool" /\ proc.state = "none" /\ ctx.tool_name = "fetch_url"
    /\ Spawn(60, <<>>)
    /\ UNCHANGED <<files, dirs, now, pc, ctx, outcome, tool_calls, start_times, ops,
                   issued, hist, at_entry>>

\* a subprocess.run call of fetch_url ends: fetch_url returns, or (after
\* openclaw exited non-zero) calls it for curl
FetchUrlEnd ==
    /\ WaitOver /\ ctx.tool_name = "fetch_url"
    /\ \E e \in RunEnds(proc, proc.timeout) :
          LET first == proc.prev = <<>>
              r == FetchUrl(ctx.tool_input.url, IF first THEN e ELSE proc.prev[1], e)
          IN  IF first /\ r.spawns = 2
              THEN /\ Spawn(35, <<e>>)
                   /\ UNCHANGED <<pc, ctx, hist>>
              ELSE /\ Returned(r.res)
                   /\ proc' = Ended1(e)
                   /\ UNCHANGED spawned
    /\ UNCHANGED <<files, dirs, now, outcome, tool_calls, start_times, ops, issued,
                   at_entry>>

\* query_convex looks the name up: it returns at once for a name that is
\* not in query_map, and calls subprocess.run for npx otherwise
QueryConvexStart ==
    /\ pc = "tool" /\ proc.state = "none" /\ ctx.tool_name = "query_convex"
    /\ LET r == QueryConvex(ctx.tool_input.query_name,
                            [kind |-> "exit", rc |-> 0, out |-> "empty", dur |-> 0])
       IN  IF r.spawns = 0
           THEN /\ Returned(r.res)
                /\ UNCHANGED <<proc, spawned>>
           ELSE /\ Spawn(30, <<>>)
                /\ UNCHANGED <<pc, ctx, hist>>
    /\ UNCHANGED <<files, dirs, now, outcome, tool_calls, start_times, ops, issued,
                   at_entry>>

\* the subprocess.run call of query_convex ends and query_convex returns
QueryConvexEnd ==
    /\ WaitOver /\ ctx.tool_name = "query_convex"
    /\ \E e \in RunEnds(proc, proc.timeout) :
          /\ Returned(QueryConvex(ctx.tool_input.query_name, e).res)
          /\ proc' = Ended1(e)
    /\ UNCHANGED <<files, dirs, now, outcome, tool_calls, start_times, spawned, ops,
                   issued, at_entry>>

\* execute_bash calls subprocess.run: bash starts (or cannot be started).
\* The command would run for dur ticks if left alone.
ExecSpawn ==
    /\ pc = "tool" /\ proc.state = "none" /\ ctx.tool_name = "execute_bash"
    /\ Spawn(ctx.tool_input.timeout, <<>>)
    /\ UNCHANGED <<files, dirs, now, pc, ctx, outcome, tool_calls, start_times, ops,
                   issued, hist, at_entry>>

\* the command makes a step while subprocess.run waits for it
ExecWork ==
    /\ pc = "tool" /\ proc.state = "running" /\ ctx.tool_name = "execute_bash"
    /\ proc.kind = "exit" /\ proc.work # "done"
    /\ \E s \in BashStep(ctx.tool_input.command, files, dirs, proc.work = "doing") :
          /\ files' = s.files
          /\ dirs' = s.dirs
          /\ IF s.done
             THEN \E x \in s.ends :
                     proc' = [proc EXCEPT !.work = "done", !.rc = x.rc, !.out = x.out]
             ELSE proc' = [proc EXCEPT !.work = "doing"]
    /\ UNCHANGED <<now, pc, ctx, outcome, tool_calls, start_times, spawned, ops,
                   issued, hist, at_entry>>

\* subprocess.run ends (the process exited, or the timeout expired and the
\* process was killed) and execute_bash returns.  A command that exited
\* has made all its steps; one that was killed has made those it had time
\* for; one that could not be started has made none.
ExecReturn ==
    /\ WaitOver /\ ctx.tool_name = "execute_bash"
    /\ LET kind == WaitEnd(proc, proc.timeout)
           over == kind \in {"exit", "undecodable"}
           e == [kind |-> kind,
                 rc |-> IF over THEN proc.rc ELSE 1,
                 out |-> IF over THEN proc.out ELSE "empty",
                 dur |-> WaitTime(proc, proc.timeout)]
       IN  /\ over => proc.work = "done"
           /\ Returned(ExecuteBashResult(e, proc.timeout))
           /\ proc' = Ended1(e)
    /\ UNCHANGED <<files, dirs, now, outcome, tool_calls, start_times, spawned, ops,
                   issued, at_entry>>

\* ------------------------------------------------------ specifications
Hooks == SafetyPre \/ LoggingPre \/ LoggingPost

\* every tool: a call of each, a read of a file that is not there and a
\* path the safety hook rejects
Next ==
    \/ \E c \in AllCalls : Issue(c)
    \/ Tick
    \/ Hooks
    \/ WebSearchSpawn \/ WebSearchEnd
    \/ FetchUrlSpawn \/ FetchUrlEnd
    \/ QueryConvexStart \/ QueryConvexEnd
    \/ DoReadFile \/ DoWriteFile
    \/ ExecSpawn \/ ExecWork \/ ProcTick \/ ExecReturn
    \/ DoSaveEnrichment \/ DoSaveComparison

Spec == Init /\ [][Next]_vars

\* the record store and the tools that write it
NextStore ==
    \/ \E c \in StoreCalls : Issue(c)
    \/ Tick
    \/ Hooks
    \/ DoReadFile \/ DoWriteFile
    \/ DoSaveEnrichment \/ DoSaveComparison

SpecStore == Init /\ [][NextStore]_vars

\* query_convex alone: the five names of query_map, and names that are not
\* in it (another function of the backend, a prefix of a name, the empty name)
QueryCalls ==
    { Call("query_convex", [query_name |-> q]) :
        q \in QueryMap \cup {"plugins:drop", "plugins", ""} }

NextQuery ==
    \/ \E c \in QueryCalls : Issue(c)
    \/ Tick
    \/ Hooks
    \/ QueryConvexStart \/ ProcTick \/ QueryConvexEnd

SpecQuery == Init /\ [][NextQuery]_vars

\* the enrichment records of two plugins, one of which gets damaged, and
\* calls that fail on the disk as it is (a directory read as a file, a file
\* in the way of a directory, a slug that names a directory that is not there)
EnrichmentBar == ENRICHMENT_DIR \o <<Bar \o DotJson>>

InitRecords ==
    /\ files = (EnrichmentFoo :> JsonDumps([rating |-> 199, updated_at |-> 0]))
                @@ (EnrichmentBar :> JsonDumps([rating |-> 149, updated_at |-> 0]))
                @@ CheckoutFiles
    /\ Import(files, InitDirs).ok
    /\ dirs = Import(files, InitDirs).dirs
    /\ now = 0
    /\ pc = "idle"
    /\ ctx = NoCtx
    /\ outcome = NoOutcome
    /\ tool_calls = <<>>
    /\ start_times = <<>>
    /\ proc = NoProc
    /\ spawned = 0
    /\ ops = <<>>
    /\ issued = 0
    /\ hist = <<>>
    /\ at_entry = <<>>

RecordCalls ==
    { Call("save_enrichment", [plugin_slug |-> sl, data |-> d]) :
        sl \in {Foo, Bar}, d \in {[price |-> 199], [updated_at |-> 149]} }
    \cup { Call("write_file", [path |-> PathRecord, content |-> c]) :
             c \in {Garbage, ArrayText, DeepText} }
    \cup { Call("write_file", [path |-> PathUnderRecord, content |-> Garbage]),
           Call("read_file", [path |-> PathData]),
           Call("save_comparison", [slug |-> SlugAB, comparison_data |-> [verdict |-> 199]]) }

NextRecords ==
    \/ \E c \in RecordCalls : Issue(c)
    \/ Tick
    \/ Hooks
    \/ DoReadFile \/ DoWriteFile
    \/ DoSaveEnrichment \/ DoSaveComparison

SpecRecords == InitRecords /\ [][NextRecords]_vars

\* execute_bash alone
ExecCalls ==
    { Call("execute_bash", [command |-> c, timeout |-> n]) :
        c \in {CmdLs, CmdRmRf}, n \in {1, 2} }
    \cup { Call("execute_bash", [command |-> c, timeout |-> 1]) :
             c \in {CmdPrintf, CmdRmR} }

\* a checkout with a directory n of two files, a and b, in the project root
DirN == Append(PROJECT_ROOT, PathN)

InitExec ==
    /\ files = (Append(DirN, <<"a">>) :> EmptyText) @@ (Append(DirN, <<"b">>) :> EmptyText)
                @@ CheckoutFiles
    /\ Import(files, InitDirs \cup {DirN}).ok
    /\ dirs = Import(files, InitDirs \cup {DirN}).dirs
    /\ now = 0
    /\ pc = "idle"
    /\ ctx = NoCtx
    /\ outcome = NoOutcome
    /\ tool_calls = <<>>
    /\ start_times = <<>>
    /\ proc = NoProc
    /\ spawned = 0
    /\ ops = <<>>
    /\ issued = 0
    /\ hist = <<>>
    /\ at_entry = <<>>

NextExec ==
    \/ \E c \in ExecCalls : Issue(c)
    \/ Tick
    \/ Hooks
    \/ ExecSpawn \/ ExecWork \/ ProcTick \/ ExecReturn

SpecExec == InitExec /\ [][NextExec]_vars

\* A call in progress runs on: the runtime runs each hook and the tool to
\* its end, a command that has been started makes its steps, the clock
\* moves while subprocess.run waits, and subprocess.run returns when the
\* process has exited or the timeout has expired.
LiveExec ==
    /\ SpecExec
    /\ WF_vars(SafetyPre) /\ WF_vars(LoggingPre) /\ WF_vars(ExecSpawn)
    /\ WF_vars(ExecWork) /\ WF_vars(ProcTick) /\ WF_vars(ExecReturn)
    /\ WF_vars(LoggingPost)

\* the tools the safety hook guards
NextGate ==
    \/ \E c \in GateCalls : Issue(c)
    \/ Tick
    \/ Hooks
    \/ DoReadFile \/ DoWriteFile
    \/ ExecSpawn \/ ExecWork \/ ProcTick \/ ExecReturn

SpecGate == Init /\ [][NextGate]_vars

\* --------------------------------------------------------------- claims
\* the two calls that ended last, when both are calls of `tool`
LastTwo(tool) == Len(hist) = 2 /\ hist[1].tool = tool /\ hist[2].tool = tool

\* the place on disk of the enrichment record and of the comparison record of a slug
EnrichmentAt(slug) ==
    Resolve(<<>>, PathJoin(ENRICHMENT_DIR, slug \o DotJson).parts, dirs).path
ComparisonAt(slug) ==
    Resolve(<<>>, PathJoin(COMPARISONS_DIR, slug \o DotJson).parts, dirs).path

\* the members of the JSON object stored at a place in the files F (none if
\* there is no file or it holds no JSON object)
Members(F, at) ==
    IF at \in DOMAIN F /\ F[at].kind = "object" THEN F[at].obj ELSE <<>>
IsRecord(F, at) == at \in DOMAIN F /\ F[at].kind = "object"

\* C1 as stated: after save_enrichment(slug, d1) followed by
\* save_enrichment(slug, d2) the stored record has exactly the keys of d1
\* and d2 plus updated_at, every key of d2 with d2's value, every key only
\* in d1 with d1's value, updated_at the time of the second call.
C1_UnionOfTwoSaves ==
    (LastTwo("save_enrichment")
        /\ hist[1].input.plugin_slug = hist[2].input.plugin_slug)
    => LET d1 == hist[1].input.data
           d2 == hist[2].input.data
           at == EnrichmentAt(hist[2].input.plugin_slug)
           rec == Members(files, at)
       IN  /\ IsRecord(files, at)
           /\ DOMAIN rec = DOMAIN d1 \cup DOMAIN d2 \cup {"updated_at"}
           /\ \A k \in DOMAIN d2 : rec[k] = d2[k]
           /\ \A k \in DOMAIN d1 \ DOMAIN d2 : rec[k] = d1[k]
           /\ rec["updated_at"] = hist[2].t

\* C1 as amended: when both calls return success, the stored record has
\* the keys of the record stored before the first call, of d1 and of d2,
\* plus updated_at; every key of d2 other than updated_at has d2's value,
\* every key only in d1 other than updated_at has d1's value, and
\* updated_at is the time of the second call.
C1_MergeOfTwoSaves ==
    (LastTwo("save_enrichment")
        /\ hist[1].input.plugin_slug = hist[2].input.plugin_slug
        /\ hist[1].success /\ hist[2].success)
    => LET d1 == hist[1].input.data
           d2 == hist[2].input.data
           at == EnrichmentAt(hist[2].input.plugin_slug)
           rec == Members(files, at)
           prior == Members(hist[1].before, at)
       IN  /\ IsRecord(files, at)
           /\ DOMAIN rec = DOMAIN prior \cup DOMAIN d1 \cup DOMAIN d2 \cup {"updated_at"}
           /\ \A k \in DOMAIN d2 \ {"updated_at"} : rec[k] = d2[k]
           /\ \A k \in (DOMAIN d1 \ DOMAIN d2) \ {"updated_at"} : rec[k] = d1[k]
           /\ rec["updated_at"] = hist[2].t

\* C1's case: two saves for foo, {price: 149, currency: 840} at one time
\* and {price: 199} at a later one, over a record an earlier run left
C1_Witness ==
    /\ LastTwo("save_enrichment")
    /\ hist[1].success /\ hist[2].success
    /\ hist[1].input = [plugin_slug |-> Foo, data |-> [price |-> 149, currency |-> 840]]
    /\ hist[2].input = [plugin_slug |-> Foo, data |-> [price |-> 199]]
    /\ hist[1].t < hist[2].t
    /\ "rating" \in DOMAIN Members(hist[1].before, EnrichmentFoo)
    /\ Members(files, EnrichmentFoo)["price"] = 199

\* C2: after save_comparison(slug, d1) followed by save_comparison(slug, d2)
\* that returns success, the stored record is d2 with generated_at set to
\* the time of the second call, and holds no key that only d1 had.
C2_OverwriteOfTwoSaves ==
    (LastTwo("save_comparison")
        /\ hist[1].input.slug = hist[2].input.slug
        /\ hist[2].success)
    => LET d1 == hist[1].input.comparison_data
           d2 == hist[2].input.comparison_data
           at == ComparisonAt(hist[2].input.slug)
           rec == Members(files, at)
       IN  /\ IsRecord(files, at)
           /\ DOMAIN rec = DOMAIN d2 \cup {"generated_at"}
           /\ \A k \in DOMAIN d2 \ {"generated_at"} : rec[k] = d2[k]
           /\ rec["generated_at"] = hist[2].t
           /\ \A k \in (DOMAIN d1 \ DOMAIN d2) \ {"generated_at"} : k \notin DOMAIN rec

\* C2's case: {verdict: 199} saved for foo, then {price: 149, ...} later
C2_Witness ==
    /\ LastTwo("save_comparison")
    /\ hist[1].success /\ hist[2].success
    /\ hist[1].input = [slug |-> Foo, comparison_data |-> [verdict |-> 199]]
    /\ hist[2].input = [slug |-> Foo,
                        comparison_data |-> [price |-> 149, generated_at |-> 149]]
    /\ hist[1].t < hist[2].t
    /\ ComparisonFoo \in DOMAIN files

\* the command of the call in progress holds a denylisted substring
DenylistedCommand ==
    /\ ctx.tool_name = "execute_bash"
    /\ \E d \in { <<"r", "m", " ", "-", "r", "f">>, <<"m", "k", "f", "s">>,
                  <<">", " ", "/", "d", "e", "v", "/">>, <<"s", "u", "d", "o">> } :
          \E i \in 1..Len(ctx.tool_input.command) :
             \E j \in i..Len(ctx.tool_input.command) :
                SubSeq(ctx.tool_input.command, i, j) = d

\* C3: an execute_bash call whose command holds a denylisted substring is
\* ended by the safety hook before the tool runs: it never gets past the
\* hook, it ends raised, and no subprocess is spawned for it.
C3_DenylistedNeverSpawns ==
    DenylistedCommand
    => /\ pc \in {"safety", "idle"}
       /\ spawned = 0
       /\ proc.state = "none"
       /\ pc = "idle" => outcome.kind = "raise"

\* C3's case: "ls > /dev/null" was issued and the hook has ended the call
C3_Witness ==
    /\ pc = "idle"
    /\ ctx.tool_name = "execute_bash"
    /\ ctx.tool_input.command = CmdDevNull
    /\ outcome.kind = "raise"
    /\ outcome.exc = "PermissionError"

\* the path of the read_file or write_file call in progress holds ".."
TraversalPath ==
    /\ ctx.tool_name \in {"read_file", "write_file"}
    /\ \E i \in 1..(Len(ctx.tool_input.path) - 1) :
          ctx.tool_input.path[i] = "." /\ ctx.tool_input.path[i + 1] = "."

\* C4: a read_file or write_file call whose path holds ".." is ended by the
\* safety hook before the filesystem is touched: the call makes no access
\* to the filesystem, and the files and directories are as they were.
C4_TraversalNeverTouchesDisk ==
    TraversalPath
    => /\ pc \in {"safety", "idle"}
       /\ ops = <<>>
       /\ pc = "idle" => /\ outcome.kind = "raise"
                         /\ hist[Len(hist)].before = files

\* C4's case: write_file("a..b") was issued and the hook has ended the call
C4_Witness ==
    /\ pc = "idle"
    /\ ctx.tool_name = "write_file"
    /\ ctx.tool_input.path = PathDots
    /\ outcome.kind = "raise"
    /\ outcome.exc = "ValueError"

\* C5 as stated: a call the safety hook rejects comes back to the caller
\* as a result with success=false and a message, not as an exception.
C5_RejectionIsAResult ==
    (pc = "idle" /\ (DenylistedCommand \/ TraversalPath))
    => /\ outcome.kind = "return"
       /\ outcome.result.success = FALSE
       /\ "error" \in DOMAIN outcome.result

\* C6: an execute_bash call whose command runs longer than its timeout
\* comes back, with success=false, when the timeout has passed (the
\* elapsed time the logging hook measures is the timeout), and one
\* subprocess was spawned for it.
C6_TimeoutEndsTheCall ==
    (pc = "tool" /\ proc.state = "running" /\ proc.kind = "exit"
     /\ proc.dur > ctx.tool_input.timeout)
    ~> (/\ pc = "idle"
        /\ outcome.kind = "return"
        /\ outcome.result.success = FALSE
        /\ tool_calls[Len(tool_calls)].elapsed = ctx.tool_input.timeout
        /\ spawned = 1)

\* C6's case: a command that needed three ticks under a timeout of two
C6_Witness ==
    /\ pc = "idle"
    /\ proc.state = "ended" /\ proc.kind = "timeout"
    /\ proc.dur = 3 /\ ctx.tool_input.timeout = 2
    /\ outcome.kind = "return"
    /\ outcome.result = [success |-> FALSE, error |-> "Command timed out"]

\* the field of a tool's result that names the call
EchoField(tool) ==
    CASE tool = "web_search" -> "query"
      [] tool = "fetch_url" -> "url"
      [] tool = "query_convex" -> "query"
      [] tool \in {"read_file", "write_file"} -> "path"
      [] tool = "execute_bash" -> "command"
      [] tool = "save_enrichment" -> "plugin_slug"
      [] tool = "save_comparison" -> "slug"

\* C7 as stated: every tool function that fails returns a result with
\* success=false, an error message and the identifying fields of the call.
C7_FailureShape ==
    (pc = "logging_post" /\ ~ctx.success)
    => /\ "error" \in DOMAIN ctx.tool_output
       /\ EchoField(ctx.tool_name) \in DOMAIN ctx.tool_output

\* C8 as stated: every access a read_file or write_file call makes to the
\* filesystem is to a place inside the project root.
C8_StaysInProjectRoot ==
    ctx.tool_name \in {"read_file", "write_file"}
    => \A i \in 1..Len(ops) : IsPrefix(PROJECT_ROOT, ops[i].at)

\* the call that ended last is a save_enrichment call that returned success
LastSaved ==
    /\ Len(hist) > 0
    /\ hist[Len(hist)].tool = "save_enrichment"
    /\ hist[Len(hist)].success

\* C9 as stated: every key supplied by a successful save_enrichment call
\* is in the stored record with the value of the latest call that supplied
\* it: the keys of the last save have its values, and the keys only the
\* save before it supplied have that one's.
C9_NoLostUpdate ==
    /\ LastSaved
         => LET last == hist[Len(hist)]
                at == EnrichmentAt(last.input.plugin_slug)
                rec == Members(files, at)
            IN  /\ IsRecord(files, at)
                /\ \A k \in DOMAIN last.input.data :
                      k \in DOMAIN rec /\ rec[k] = last.input.data[k]
    /\ (LastTwo("save_enrichment")
            /\ hist[1].input.plugin_slug = hist[2].input.plugin_slug
            /\ hist[1].success /\ hist[2].success)
         => LET rec == Members(files, EnrichmentAt(hist[2].input.plugin_slug))
            IN  \A k \in DOMAIN hist[1].input.data \ DOMAIN hist[2].input.data :
                   k \in DOMAIN rec /\ rec[k] = hist[1].input.data[k]

\* C9 as amended: a successful save_enrichment call leaves a record in
\* which every key it supplied other than updated_at has the value it
\* supplied, every key other than updated_at of the record it found that
\* it did not supply has the value found (so a key supplied by any earlier
\* save keeps the value of the latest call that supplied it), and
\* updated_at is the time of the save.
C9_NoLostUpdateButStamp ==
    /\ LastSaved
         => LET last == hist[Len(hist)]
                at == EnrichmentAt(last.input.plugin_slug)
                rec == Members(files, at)
                found == Members(last.before, at)
                data == last.input.data
            IN  /\ IsRecord(files, at)
                /\ \A k \in DOMAIN data \ {"updated_at"} :
                      k \in DOMAIN rec /\ rec[k] = data[k]
                /\ \A k \in DOMAIN found \ (DOMAIN data \cup {"updated_at"}) :
                      k \in DOMAIN rec /\ rec[k] = found[k]
                /\ "updated_at" \in DOMAIN rec /\ rec["updated_at"] = last.t
    /\ (LastTwo("save_enrichment")
            /\ hist[1].input.plugin_slug = hist[2].input.plugin_slug
            /\ hist[1].success /\ hist[2].success)
         => LET rec == Members(files, EnrichmentAt(hist[2].input.plugin_slug))
            IN  \A k \in (DOMAIN hist[1].input.data \ DOMAIN hist[2].input.data)
                            \ {"updated_at"} :
                   k \in DOMAIN rec /\ rec[k] = hist[1].input.data[k]

\* C9's case: over a record with a rating, foo's price was saved as 149
\* with a currency and then, later, as 199
C9_Witness ==
    /\ LastTwo("save_enrichment")
    /\ hist[1].success /\ hist[2].success
    /\ hist[1].input = [plugin_slug |-> Foo, data |-> [price |-> 149, currency |-> 840]]
    /\ hist[2].input = [plugin_slug |-> Foo, data |-> [price |-> 199]]
    /\ hist[2].t = 2
    /\ files[EnrichmentFoo]
         = JsonDumps([rating |-> 199, price |-> 199, currency |-> 840, updated_at |-> 2])

\* C10: a run of the logging hook, before or after the tool, hands on the
\* context it was given unchanged (tool name, input, output, success flag)
\* and changes nothing but its own tool_calls and start_times; what the
\* caller gets is the output the tool returned.
C10_LoggingObserves ==
    [][(pc \in {"logging_pre", "logging_post"})
        => (/\ ctx' = ctx
            /\ <<files, dirs, now, proc, spawned, ops, issued>>'
                 = <<files, dirs, now, proc, spawned, ops, issued>>
            /\ (pc = "logging_post" => outcome'.result = ctx.tool_output))]_vars

\* C10's case: the hook has run before and after a tool that failed
C10_Witness ==
    /\ pc = "idle"
    /\ outcome.kind = "return"
    /\ outcome.result.success = FALSE
    /\ Len(tool_calls) = 2
    /\ DOMAIN start_times # {}

\* C11 as stated: whenever the agent loop is between calls, the call log
\* holds one entry per call issued (successful, failed or rejected by the
\* safety hook), the last entry is that of the call that ended last, and
\* the summary counts as many calls as were issued.
C11_EveryCallLogged ==
    pc = "idle"
    => /\ Len(tool_calls) = issued
       /\ Summary(tool_calls).total = issued
       /\ Summary(tool_calls).successful
            = Cardinality({i \in 1..Len(tool_calls) : tool_calls[i].success})
       /\ Len(hist) > 0
            => /\ tool_calls[Len(tool_calls)].tool = hist[Len(hist)].tool
               /\ tool_calls[Len(tool_calls)].success = hist[Len(hist)].success

\* C12: query_convex runs the remote query (one subprocess.run call) only
\* for a query name of the allow-list; for every other name it returns
\* success=false with an error and makes no subprocess.run call.
C12_OnlyAllowListedQueriesRun ==
    (ctx.tool_name = "query_convex" /\ pc \in {"logging_post", "idle"})
    => IF ctx.tool_input.query_name
            \in {"plugins:list", "plugins:get", "plugins:search",
                 "manufacturers:list", "comparisons:list"}
       THEN spawned = 1
       ELSE /\ spawned = 0
            /\ ctx.success = FALSE
            /\ "error" \in DOMAIN ctx.tool_output
            /\ pc = "idle" => /\ outcome.kind = "return"
                              /\ outcome.result = ctx.tool_output

\* C12's case: "plugins:drop" has come back as an error with no subprocess
\* run, after "comparisons:list" had been run
C12_Witness ==
    /\ pc = "idle"
    /\ Len(hist) = 2
    /\ hist[1].input.query_name = "comparisons:list" /\ hist[1].success
    /\ ctx.tool_name = "query_convex"
    /\ ctx.tool_input.query_name = "plugins:drop"
    /\ outcome.result = [success |-> FALSE, error |-> "Unknown query"]
    /\ spawned = 0

\* C13: a save_enrichment call that finds the slug's document to be
\* malformed JSON, or JSON that is no object (or JSON too deep to load),
\* returns success=false with an error and leaves that document and every
\* other file as they were.
C13_FailedLoadWritesNothing ==
    (/\ Len(hist) > 0
     /\ hist[Len(hist)].tool = "save_enrichment"
     /\ EnrichmentAt(hist[Len(hist)].input.plugin_slug) \in DOMAIN hist[Len(hist)].before
     /\ hist[Len(hist)].before[EnrichmentAt(hist[Len(hist)].input.plugin_slug)].kind
          # "object")
    => /\ hist[Len(hist)].success = FALSE
       /\ files = hist[Len(hist)].before
       /\ dirs = InitDirs
       /\ pc = "logging_post" => /\ ctx.success = FALSE
                                 /\ "error" \in DOMAIN ctx.tool_output

\* C13's case: foo's document had been overwritten with text that is not
\* JSON, the save for foo has failed, and bar's record is on disk
C13_Witness ==
    /\ pc = "idle"
    /\ Len(hist) = 2
    /\ hist[2].tool = "save_enrichment"
    /\ hist[2].input.plugin_slug = Foo
    /\ hist[2].before[EnrichmentFoo] = Garbage
    /\ outcome.result = [success |-> FALSE, error |-> "JSONDecodeError",
                         plugin_slug |-> Foo]
    /\ files[EnrichmentFoo] = Garbage
    /\ EnrichmentBar \in DOMAIN files

====
